---- MODULE Spec2Model ----
(***************************************************************************)
(* The two example scripts of the repository, examples/print.py and        *)
(* examples/send.py, as one state machine.  A run executes one of the two  *)
(* scripts.  pc names the statement the script is at (about to execute or  *)
(* executing); calls is the log of the calls the script has made on the    *)
(* outside world (the bus handle, print, time.sleep), each with the way it *)
(* ended.  The interrupt (SIGINT, raised by Python as KeyboardInterrupt at *)
(* the statement being executed) is delivered at most once in a run; intAt *)
(* is the statement it was delivered at, "None" before.                    *)
(***************************************************************************)
EXTENDS Integers, Sequences, FiniteSets

VARIABLES script, pc, msg, calls, now, intAt, exc

vars == <<script, pc, msg, calls, now, intAt, exc>>

\* Bound on the number of loop iterations a run of the model completes.
MaxIter == 2

Scripts == {"print", "send"}

\* ------------------------------------------------------------------------
\* The CAN message
\* ------------------------------------------------------------------------

\* can.Message(arbitration_id=..., data=..., is_extended_id=..., is_fd=...)
Message(arbitration_id, data, is_extended_id, is_fd) ==
    [arbitration_id |-> arbitration_id, data |-> data,
     is_extended_id |-> is_extended_id, is_fd |-> is_fd]

\* The value of the name msg before its first assignment, and the argument
\* recorded for calls that take no message.
NoMsg == Message(-1, <<>>, FALSE, FALSE)

\* The hexadecimal literal 0xc0ffee of send.py, digit by digit.
ArbitrationId == 12 * 1048576 + 0 * 65536 + 15 * 4096 + 15 * 256 + 14 * 16 + 14

\* Faulty variants of the constructed frame (a payload one byte short; a
\* classic frame with nine bytes), which the properties below must reject.
SendMsgShort == Message(ArbitrationId, <<0, 1, 2>>, TRUE, TRUE)

SendMsgClassic == Message(ArbitrationId, <<0, 1, 2, 3, 4, 5, 6, 7, 8>>, TRUE, FALSE)

\* send.py line 8: the frame built in every iteration.
SendMsg == Message(ArbitrationId, <<0, 1, 2, 3>>, TRUE, TRUE)

\* send.py line 11: time.sleep(1).
SleepSecs == 1

\* The frame model of the bus library (not part of the repository's
\* sources): the payload length is limited by the FD flag, the identifier
\* by the extended-ID flag.
MaxDataLen(is_fd) == IF is_fd THEN 64 ELSE 8

MaxArbitrationId(is_extended_id) == IF is_extended_id THEN 536870911 ELSE 2047

Data(n) == [i \in 1..n |-> (i - 1) % 256]

RecvIds == {291, ArbitrationId}

RecvLens == {0, 8, 64}

\* The frames bus.recv() can return.
RecvFrames ==
    { Message(id, Data(n), ext, fd) :
        <<id, n, ext, fd>> \in
          { q \in RecvIds \X RecvLens \X BOOLEAN \X BOOLEAN :
              /\ q[1] <= MaxArbitrationId(q[3])
              /\ q[2] <= MaxDataLen(q[4]) } }

\* ------------------------------------------------------------------------
\* Control flow
\* ------------------------------------------------------------------------

\* Failures other than the interrupt that a call can raise.
Failures == {"ConnectionRefusedError", "CanOperationError", "OSError"}

\* The statements that are calls on the outside world.
CallSites == {"Bus", "recv", "print", "send", "sleep", "shutdown"}

\* The calls that can raise a failure of their own.
FailSites == {"Bus", "recv", "print", "send", "shutdown"}

\* Faulty variant: the constructor call inside the try block.
TryBodyWithBus(s) ==
    IF s = "print" THEN {"Bus", "recv", "print"}
    ELSE {"Bus", "Message", "print", "send", "sleep"}

\* The statements inside the try block (print.py 8-10, send.py 7-11).
TryBody(s) ==
    IF s = "print" THEN {"recv", "print"}
    ELSE {"Message", "print", "send", "sleep"}

\* Faulty variants of the except clause: a bare except, and no handler.
CaughtAny(s, at, type) == at \in TryBody(s)

CaughtNone(s, at, type) == FALSE

\* except KeyboardInterrupt: (print.py 11, send.py 12).
Caught(s, at, type) == at \in TryBody(s) /\ type = "KeyboardInterrupt"

\* Faulty variants of the statement order, which the properties below must
\* reject: the print skipped, the sleep skipped, a loop that ends after one
\* pass, a handler that resumes the loop, the send before the print.
AdvanceNoPrint(s, at) ==
    IF s = "print"
    THEN CASE at = "Bus" -> "recv"
           [] at = "recv" -> "recv"
           [] at = "print" -> "recv"
           [] OTHER -> "exited"
    ELSE CASE at = "Bus" -> "Message"
           [] at = "Message" -> "print"
           [] at = "print" -> "send"
           [] at = "send" -> "sleep"
           [] at = "sleep" -> "Message"
           [] OTHER -> "exited"

AdvanceNoSleep(s, at) ==
    IF s = "print"
    THEN CASE at = "Bus" -> "recv"
           [] at = "recv" -> "print"
           [] at = "print" -> "recv"
           [] OTHER -> "exited"
    ELSE CASE at = "Bus" -> "Message"
           [] at = "Message" -> "print"
           [] at = "print" -> "send"
           [] at = "send" -> "Message"
           [] at = "sleep" -> "Message"
           [] OTHER -> "exited"

AdvanceOnce(s, at) ==
    IF s = "print"
    THEN CASE at = "Bus" -> "recv"
           [] at = "recv" -> "print"
           [] at = "print" -> "exited"
           [] OTHER -> "exited"
    ELSE CASE at = "Bus" -> "Message"
           [] at = "Message" -> "print"
           [] at = "print" -> "send"
           [] at = "send" -> "sleep"
           [] at = "sleep" -> "exited"
           [] OTHER -> "exited"

AdvanceResume(s, at) ==
    IF s = "print"
    THEN CASE at = "Bus" -> "recv"
           [] at = "recv" -> "print"
           [] at = "print" -> "recv"
           [] OTHER -> "recv"
    ELSE CASE at = "Bus" -> "Message"
           [] at = "Message" -> "print"
           [] at = "print" -> "send"
           [] at = "send" -> "sleep"
           [] at = "sleep" -> "Message"
           [] OTHER -> "Message"

AdvanceSendFirst(s, at) ==
    IF s = "print"
    THEN CASE at = "Bus" -> "recv"
           [] at = "recv" -> "print"
           [] at = "print" -> "recv"
           [] OTHER -> "exited"
    ELSE CASE at = "Bus" -> "Message"
           [] at = "Message" -> "send"
           [] at = "send" -> "print"
           [] at = "print" -> "sleep"
           [] at = "sleep" -> "Message"
           [] OTHER -> "exited"

\* The statement executed after the statement at has completed normally:
\* the constructor is followed by the loop body, the last statement of the
\* body by the first (while True), and bus.shutdown() by the end of the
\* script.
Advance(s, at) ==
    IF s = "print"
    THEN CASE at = "Bus" -> "recv"
           [] at = "recv" -> "print"
           [] at = "print" -> "recv"
           [] OTHER -> "exited"
    ELSE CASE at = "Bus" -> "Message"
           [] at = "Message" -> "print"
           [] at = "print" -> "send"
           [] at = "send" -> "sleep"
           [] at = "sleep" -> "Message"
           [] OTHER -> "exited"

\* ------------------------------------------------------------------------
\* The call log
\* ------------------------------------------------------------------------

\* One call: the function, how it ended ("ok": it returned, "raised": it
\* raised a failure, "interrupted": the interrupt arrived while it ran), the
\* exception it ended with, the message passed or returned, and the time it
\* was issued at.
Event(fn, out, err, m) == [fn |-> fn, out |-> out, err |-> err, msg |-> m, t |-> now]

Indices(fn) == {i \in DOMAIN calls : calls[i].fn = fn}

NumCalls(fn) == Cardinality(Indices(fn))

NumDone(fn) == Cardinality({i \in Indices(fn) : calls[i].out = "ok"})

\* The exception most recently raised: its type and the statement it was
\* raised at.
NoExc == [type |-> "None", at |-> "None"]

Raise(type, at) ==
    /\ exc' = [type |-> type, at |-> at]
    /\ pc' = IF Caught(script, at, type) THEN "shutdown" ELSE "crashed"

\* ------------------------------------------------------------------------
\* The scripts
\* ------------------------------------------------------------------------

Init ==
    /\ script \in Scripts
    /\ pc = "Bus"
    /\ msg = NoMsg
    /\ calls = <<>>
    /\ now = 0
    /\ intAt = "None"
    /\ exc = NoExc

\* bus = can.interface.Bus(...) returns (print.py 5, send.py 4).
BusOpen ==
    /\ pc = "Bus"
    /\ calls' = Append(calls, Event("Bus", "ok", "None", NoMsg))
    /\ pc' = Advance(script, "Bus")
    /\ UNCHANGED <<script, msg, now, intAt, exc>>

\* msg = bus.recv() returns the next inbound frame (print.py 9).
Recv ==
    /\ script = "print"
    /\ pc = "recv"
    /\ NumDone("recv") < MaxIter
    /\ \E f \in RecvFrames :
         /\ msg' = f
         /\ calls' = Append(calls, Event("recv", "ok", "None", f))
    /\ pc' = Advance(script, "recv")
    /\ UNCHANGED <<script, now, intAt, exc>>

\* msg = can.Message(...) (send.py 8).
NewMessage ==
    /\ script = "send"
    /\ pc = "Message"
    /\ NumDone("print") < MaxIter
    /\ msg' = SendMsg
    /\ pc' = Advance(script, "Message")
    /\ UNCHANGED <<script, calls, now, intAt, exc>>

\* print(msg) returns (print.py 10, send.py 9).
PrintMsg ==
    /\ pc = "print"
    /\ calls' = Append(calls, Event("print", "ok", "None", msg))
    /\ pc' = Advance(script, "print")
    /\ UNCHANGED <<script, msg, now, intAt, exc>>

\* bus.send(msg) returns (send.py 10).
Send ==
    /\ script = "send"
    /\ pc = "send"
    /\ calls' = Append(calls, Event("send", "ok", "None", msg))
    /\ pc' = Advance(script, "send")
    /\ UNCHANGED <<script, msg, now, intAt, exc>>

\* time.sleep(1) returns (send.py 11).
Sleep ==
    /\ script = "send"
    /\ pc = "sleep"
    /\ calls' = Append(calls, Event("sleep", "ok", "None", NoMsg))
    /\ now' = now + SleepSecs
    /\ pc' = Advance(script, "sleep")
    /\ UNCHANGED <<script, msg, intAt, exc>>

\* bus.shutdown() returns and the script ends (print.py 12, send.py 13).
Shutdown ==
    /\ pc = "shutdown"
    /\ calls' = Append(calls, Event("shutdown", "ok", "None", NoMsg))
    /\ pc' = Advance(script, "shutdown")
    /\ UNCHANGED <<script, msg, now, intAt, exc>>

\* The call at the current statement raises a failure other than the
\* interrupt.
Fail ==
    /\ pc \in FailSites
    /\ \E e \in Failures :
         /\ Raise(e, pc)
         /\ calls' = Append(calls,
                       Event(pc, "raised", e,
                             IF pc \in {"print", "send"} THEN msg ELSE NoMsg))
    /\ UNCHANGED <<script, msg, now, intAt>>

\* The interrupt is delivered while the script is at the current statement:
\* either before the statement's call has been issued (between statements)
\* or while the call is running.
Interrupt ==
    /\ intAt = "None"
    /\ pc \notin {"exited", "crashed"}
    /\ intAt' = pc
    /\ Raise("KeyboardInterrupt", pc)
    /\ \E inCall \in BOOLEAN :
         calls' = IF inCall /\ pc \in CallSites
                  THEN Append(calls,
                         Event(pc, "interrupted", "KeyboardInterrupt",
                               IF pc \in {"print", "send"} THEN msg ELSE NoMsg))
                  ELSE calls
    /\ UNCHANGED <<script, msg, now>>

Next ==
    \/ BusOpen
    \/ Recv
    \/ NewMessage
    \/ PrintMsg
    \/ Send
    \/ Sleep
    \/ Shutdown
    \/ Fail
    \/ Interrupt

Spec == Init /\ [][Next]_vars

\* The interpreter goes on executing the handler: bus.shutdown(), once
\* reached, returns (or raises).
FairSpec == Spec /\ WF_vars(Shutdown)

\* ------------------------------------------------------------------------
\* Properties
\* ------------------------------------------------------------------------

\* The statements of the two loop bodies, as the source lists them.
LoopStmts == {"recv", "print", "Message", "send", "sleep"}

Terminated == pc \in {"exited", "crashed"}

\* The messages of the calls of fn that returned, among the first n calls.
Returned(fn, n) ==
    LET done == SelectSeq(SubSeq(calls, 1, n),
                          LAMBDA e : e.fn = fn /\ e.out = "ok")
    IN  [k \in DOMAIN done |-> done[k].msg]

\* The statement at which the loop was left: where the interrupt arrived, or
\* else where the uncaught exception was raised.
LeftAt == IF intAt \in LoopStmts THEN intAt ELSE exc.at

\* C1: in the send example every frame passed to bus.send (whether the call
\* returned, failed or was interrupted) has arbitration ID 0xC0FFEE, the
\* extended-ID flag and the FD flag set and payload exactly [0,1,2,3], in
\* every iteration and wherever the interrupt arrives.
C1_SentFrameIsFixed ==
    \A i \in DOMAIN calls :
        calls[i].fn = "send" =>
            /\ calls[i].msg.arbitration_id = 12648430
            /\ calls[i].msg.is_extended_id = TRUE
            /\ calls[i].msg.is_fd = TRUE
            /\ calls[i].msg.data = <<0, 1, 2, 3>>

\* Two iterations have sent and the interrupt then ended the script.
C1_Witness ==
    /\ script = "send"
    /\ NumDone("send") >= 2
    /\ intAt = "sleep"
    /\ pc = "exited"

\* C2: in both examples an interrupt delivered at any statement of the loop
\* (recv, print, message construction, send, sleep) leads to exactly one
\* bus.shutdown call and then to the end of the process, and no bus.recv or
\* bus.send call is made after the interrupt.
C2_InterruptShutsDownOnce ==
    /\ [](intAt \in LoopStmts =>
            \/ pc = "shutdown" /\ NumCalls("shutdown") = 0
            \/ pc = "exited" /\ NumDone("shutdown") = 1 /\ NumCalls("shutdown") = 1
            \/ pc = "crashed" /\ exc.at = "shutdown" /\ NumCalls("shutdown") = 1)
    /\ [][intAt # "None" =>
            /\ NumCalls("recv")' = NumCalls("recv")
            /\ NumCalls("send")' = NumCalls("send")]_vars
    /\ (intAt \in LoopStmts ~> Terminated)

\* The interrupt arrived during the sleep of the second iteration, and the
\* script has shut the bus down and ended.
C2_Witness ==
    /\ script = "send"
    /\ intAt = "sleep"
    /\ NumDone("send") = 2
    /\ pc = "exited"
    /\ NumCalls("shutdown") = 1

\* C3: in the receive example every frame bus.recv returned has been printed
\* when the next bus.recv call is issued; the frames are printed in the
\* order received, and at most one received frame is waiting to be printed.
C3_PrintedBeforeNextRecv ==
    script = "print" =>
        /\ \A i \in Indices("recv") :
              Returned("print", i - 1) = Returned("recv", i - 1)
        /\ Len(Returned("recv", Len(calls)))
             - Len(Returned("print", Len(calls))) \in {0, 1}
        /\ \A k \in DOMAIN Returned("print", Len(calls)) :
              /\ k \in DOMAIN Returned("recv", Len(calls))
              /\ Returned("print", Len(calls))[k] = Returned("recv", Len(calls))[k]
        /\ pc = "recv" => Returned("print", Len(calls)) = Returned("recv", Len(calls))

\* Two different frames were received and printed, and a third recv call has
\* been issued.
C3_Witness ==
    /\ script = "print"
    /\ NumDone("recv") = 2
    /\ NumDone("print") = 2
    /\ NumCalls("recv") = 3
    /\ Returned("recv", Len(calls))[1] # Returned("recv", Len(calls))[2]

\* C4: no frame passed to print or to bus.send by either script has a
\* payload longer than 64 bytes, nor longer than 8 bytes when its FD flag is
\* false.
C4_PayloadWithinFrameLimit ==
    \A i \in DOMAIN calls :
        calls[i].fn \in {"print", "send"} =>
            /\ Len(calls[i].msg.data) <= 64
            /\ ~calls[i].msg.is_fd => Len(calls[i].msg.data) <= 8

\* The receive example has printed a 64-byte FD frame and an 8-byte classic
\* frame.
C4_Witness ==
    /\ script = "print"
    /\ \E i \in Indices("print") :
          calls[i].msg.is_fd /\ Len(calls[i].msg.data) = 64
    /\ \E i \in Indices("print") :
          ~calls[i].msg.is_fd /\ Len(calls[i].msg.data) = 8

\* C5: in the send example the calls of an iteration are made in the order
\* print, send, sleep (after the frame's construction), so between two
\* consecutive bus.send calls there is exactly one completed sleep of one
\* time unit and exactly one print, and the sends are one time unit apart.
C5_OneSleepBetweenSends ==
    script = "send" =>
        /\ \A i \in DOMAIN calls :
              /\ calls[i].fn = "print" =>
                    /\ calls[i - 1].out = "ok"
                    /\ calls[i - 1].fn = IF i = 2 THEN "Bus" ELSE "sleep"
              /\ calls[i].fn = "send" =>
                    /\ calls[i - 1].fn = "print"
                    /\ calls[i - 1].out = "ok"
                    /\ calls[i - 1].t = calls[i].t
              /\ calls[i].fn = "sleep" =>
                    /\ calls[i - 1].fn = "send"
                    /\ calls[i - 1].out = "ok"
        /\ \A i, j \in Indices("send") :
              (i < j /\ \A k \in Indices("send") : ~(i < k /\ k < j)) =>
                  /\ Cardinality({k \in Indices("sleep") :
                                    i < k /\ k < j /\ calls[k].out = "ok"}) = 1
                  /\ Cardinality({k \in Indices("sleep") : i < k /\ k < j}) = 1
                  /\ Cardinality({k \in Indices("print") : i < k /\ k < j}) = 1
                  /\ calls[j].t - calls[i].t = 1

\* Two consecutive sends have been made.
C5_Witness ==
    /\ script = "send"
    /\ NumCalls("send") = 2
    /\ NumDone("sleep") = 2

\* C6: a failure other than the interrupt raised by the bus constructor,
\* bus.recv, bus.send or print is not caught: it is the exception the script
\* ends with, unchanged, the handler does not run, and no call at all is
\* made after the failed one.
C6_FailurePropagates ==
    \A i \in DOMAIN calls :
        (calls[i].out = "raised" /\ calls[i].fn \in {"Bus", "recv", "send", "print"}) =>
            /\ i = Len(calls)
            /\ pc = "crashed"
            /\ exc = [type |-> calls[i].err, at |-> calls[i].fn]
            /\ exc.type \in Failures
            /\ NumCalls("shutdown") = 0

\* bus.recv failed in the second iteration.
C6_Witness ==
    /\ script = "print"
    /\ NumDone("print") = 1
    /\ pc = "crashed"
    /\ exc = [type |-> "CanOperationError", at |-> "recv"]

\* C7: the loop has no exit of its own.  While no interrupt has been
\* delivered and no call has failed the script is in the constructor or in
\* the loop and bus.shutdown has not been called; the script ends normally
\* only after an interrupt was delivered in the loop.
C7_ExitOnlyByInterrupt ==
    /\ (intAt = "None" /\ \A i \in DOMAIN calls : calls[i].out = "ok") =>
          /\ pc \in {"Bus"} \cup LoopStmts
          /\ NumCalls("shutdown") = 0
    /\ pc = "exited" => intAt \in LoopStmts
    /\ NumCalls("shutdown") > 0 => intAt \in LoopStmts

\* Every iteration the model allows has run without interrupt or failure,
\* and the script is back at the head of the loop.
C7_Witness ==
    /\ script = "send"
    /\ intAt = "None"
    /\ exc = NoExc
    /\ NumDone("sleep") >= 2
    /\ NumDone("sleep") = NumDone("print")
    /\ pc = "Message"

\* The phase of the lifecycle a statement belongs to: 0 open (the
\* constructor), 1 looping, 2 closing (bus.shutdown), 3 ended.
Phase(at) ==
    CASE at = "Bus" -> 0
      [] at \in LoopStmts -> 1
      [] at = "shutdown" -> 2
      [] OTHER -> 3

\* C8: the lifecycle open -> looping -> closing only moves forward: no
\* bus.recv or bus.send call is made before the constructor has returned,
\* every such call is made in the looping phase, and once bus.shutdown is
\* reached the script never returns to the loop or the constructor.
C8_LifecycleMovesForward ==
    /\ [][Phase(pc') >= Phase(pc)]_vars
    /\ [][(NumCalls("recv")' # NumCalls("recv") \/ NumCalls("send")' # NumCalls("send"))
            => Phase(pc) = 1]_vars
    /\ [](\A i \in Indices("recv") \cup Indices("send") :
            i > 1 /\ calls[1].fn = "Bus" /\ calls[1].out = "ok")
    /\ [](pc = "Bus" => NumCalls("recv") = 0 /\ NumCalls("send") = 0)

\* The receive example went through all three phases.
C8_Witness ==
    /\ script = "print"
    /\ NumDone("Bus") = 1
    /\ NumDone("recv") >= 1
    /\ NumDone("shutdown") = 1
    /\ pc = "exited"

\* C9: in the send example every frame passed to bus.send was printed just
\* before; the number of frames printed minus the number handed to bus.send
\* is 0 or 1 in every state, counting the calls issued as well as the calls
\* that returned; and when the script has ended, the printed frames exceed
\* the frames bus.send took (the calls that returned) by 1 exactly when the
\* loop was left at the send statement, by the interrupt or by a send
\* failure: that frame was printed and never transmitted.
C9_PrintedBeforeSent ==
    script = "send" =>
        /\ \A i \in Indices("send") :
              /\ i > 1
              /\ calls[i - 1].fn = "print"
              /\ calls[i - 1].out = "ok"
              /\ calls[i - 1].msg = calls[i].msg
        /\ NumDone("print") - NumCalls("send") \in {0, 1}
        /\ NumDone("print") - NumDone("send") \in {0, 1}
        /\ Terminated =>
              ((NumDone("print") - NumDone("send") = 1) <=> (LeftAt = "send"))

\* The send of the second iteration failed: two frames printed, one sent.
C9_Witness ==
    /\ script = "send"
    /\ pc = "crashed"
    /\ exc.at = "send"
    /\ NumDone("print") = 2
    /\ NumDone("send") = 1

\* C10: bus.shutdown is called only by the interrupt handler, at most once.
\* When the script has ended, the number of bus.shutdown calls is 1 if the
\* interrupt was delivered in the loop and 0 otherwise (a failure of recv,
\* send or print, or a failure or interrupt during the constructor).
C10_ShutdownOnlyInHandler ==
    /\ NumCalls("shutdown") <= 1
    /\ NumCalls("shutdown") = 1 => intAt \in LoopStmts
    /\ Terminated =>
          NumCalls("shutdown") = IF intAt \in LoopStmts THEN 1 ELSE 0
    /\ (Terminated /\ exc.at = "Bus") => NumCalls("shutdown") = 0

\* The interrupt arrived during the constructor: the script ended without
\* a bus.shutdown call.
C10_Witness ==
    /\ pc = "crashed"
    /\ intAt = "Bus"
    /\ exc.type = "KeyboardInterrupt"
    /\ NumCalls("shutdown") = 0

====
